---- MODULE Spec2Model ----
(***************************************************************************)
(* Damped least-squares inversion core of DEPENDENCIES/inverse_dependencies *)
(* (lsqr_solution, residual, find_optimal_epsilon) as a state machine.      *)
(*                                                                          *)
(* Numbers: the inputs are integer valued and every quantity the code       *)
(* derives from them is kept as an exact fraction in lowest terms, so that  *)
(* two results are equal exactly when the fractions are equal.  The one     *)
(* place where binary floating point decides the control flow, the          *)
(* singularity test inside numpy.linalg.inv, is modelled separately: see    *)
(* PivotExact and inv.                                                      *)
(***************************************************************************)
EXTENDS Integers, Sequences, FiniteSets, TLC

VARIABLES
    pc,              \* position: the source line about to run, or idle/done/raised
    op,              \* the function the caller invoked
    G, d,            \* forward operator (tuple of rows) and data vector
    epsilon,         \* damping coefficient of the running lsqr_solution
    m,               \* the m argument of the last residual(d, G, m)
    epsilon_values,  \* candidate list of find_optimal_epsilon
    noise_norm,      \* target noise norm of find_optimal_epsilon
    A, A_inv, m_est, \* locals of lsqr_solution / find_optimal_epsilon
    residuals,       \* the list built at lines 28-32
    k,               \* 1-based position of the for loop of line 30
    res,             \* value of the last residual(...) evaluation
    ret, err,        \* what the call returned / the exception it raised
    build,           \* how this numpy build rounds an inexact zero pivot
    calls,           \* calls the caller may still make
    dom,             \* which input domain the caller draws from
    n_inv, n_res,    \* history: inversions / residual evaluations of this call
    m_log,           \* history: m_est of every candidate of this call
    args0            \* history: the caller's arguments as passed

vars == <<pc, op, G, d, epsilon, m, epsilon_values, noise_norm, A, A_inv, m_est,
          residuals, k, res, ret, err, build, calls, dom, n_inv, n_res, m_log, args0>>

----------------------------------------------------------------------------
(* Bounds of the input domain *)

MaxLen == 3
EpsMax == 2
NoiseMax == 1
MaxCalls == 2

EpsGrid == (-1)..EpsMax
NoiseGrid == (-1)..NoiseMax

SeqsUpTo(S, n) == UNION {[1..j -> S] : j \in 0..n}

----------------------------------------------------------------------------
(* Integer and fraction helpers *)

Abs(x) == IF x < 0 THEN -x ELSE x

RECURSIVE Gcd(_, _)
Gcd(a, b) == IF b = 0 THEN a ELSE Gcd(b, a % b)

RECURSIVE SeqGcd(_, _)
SeqGcd(s, g) == IF s = <<>> THEN g ELSE SeqGcd(Tail(s), Gcd(Abs(Head(s)), g))

RECURSIVE IsPow2(_)
IsPow2(n) == IF n = 1 THEN TRUE ELSE IF n % 2 # 0 THEN FALSE ELSE IsPow2(n \div 2)

\* a vector of fractions with a common denominator, in lowest terms, den > 0
Reduce(num, den) ==
    LET g == SeqGcd(num, Abs(den))
        s == IF den < 0 THEN -1 ELSE 1
    IN  [num |-> [i \in 1..Len(num) |-> s * (num[i] \div g)], den |-> s * (den \div g)]

IntVec(v) == [num |-> v, den |-> 1]
NoneQ == [num |-> <<>>, den |-> 0]

\* a single fraction n/q, in lowest terms, q > 0
Frac(n, q) == LET r == Reduce(<<n>>, q) IN [n |-> r.num[1], q |-> r.den]
NoneR == [n |-> 0, q |-> 0]

\* a/b < c/e for a, c >= 0 and b, e > 0, by continued-fraction comparison
\* (no cross product, so the intermediate values stay within 32 bits)
RECURSIVE FracLess(_, _, _, _)
FracLess(a, b, c, e) ==
    LET qa == a \div b
        qc == c \div e
        ra == a % b
        rc == c % e
    IN  IF qa # qc THEN qa < qc
        ELSE IF rc = 0 THEN FALSE
        ELSE IF ra = 0 THEN TRUE
        ELSE FracLess(e, rc, b, ra)

Less(x, y) == FracLess(x.n, x.q, y.n, y.q)

----------------------------------------------------------------------------
(* Dense linear algebra on tuples of rows (np.dot, .T, np.identity, norm) *)

RECURSIVE SumTo(_, _)
SumTo(f, n) == IF n = 0 THEN 0 ELSE f[n] + SumTo(f, n - 1)

Dot(u, v) == SumTo([i \in 1..Len(u) |-> u[i] * v[i]], Len(u))

Col(X, j) == [i \in 1..Len(X) |-> X[i][j]]

Transpose(X) == [j \in 1..Len(X[1]) |-> Col(X, j)]

MatMul(X, Y) == [i \in 1..Len(X) |-> [j \in 1..Len(Y[1]) |-> Dot(X[i], Col(Y, j))]]

MatVec(X, v) == [i \in 1..Len(X) |-> Dot(X[i], v)]

Identity(n) == [i \in 1..n |-> [j \in 1..n |-> IF i = j THEN 1 ELSE 0]]

Norm2(v) == Dot(v, v)

Det(X) == IF Len(X) = 1 THEN X[1][1] ELSE X[1][1] * X[2][2] - X[1][2] * X[2][1]

Adj(X) == IF Len(X) = 1 THEN <<<<1>>>>
          ELSE << <<X[2][2], -X[1][2]>>, <<-X[2][1], X[1][1]>> >>

----------------------------------------------------------------------------
(* lsqr_solution, lines 3-14 *)

\* line 10, with a sign slip in the damping term
NormalMatrix_minus(G_, eps) ==
    LET GtG == MatMul(Transpose(G_), G_)
        n == Len(G_[1])
    IN  [i \in 1..n |-> [j \in 1..n |-> GtG[i][j] - eps * eps * Identity(n)[i][j]]]

\* lines 6-10: A = G.T G + epsilon**2 * I
NormalMatrix(G_, eps) ==
    LET GtG == MatMul(Transpose(G_), G_)
        n == Len(G_[1])
    IN  [i \in 1..n |-> [j \in 1..n |-> GtG[i][j] + eps * eps * Identity(n)[i][j]]]

\* LAPACK's LU with partial pivoting reports a singular matrix only when a
\* pivot it computed is exactly zero.  For an exactly singular X that is
\* certain when the elimination is exact in binary: the first column is zero,
\* or the multiplier x/p (p the entry of the first column of largest
\* magnitude) has a power of two as its reduced denominator.
PivotExact(X) ==
    IF Len(X) = 1 THEN TRUE
    ELSE LET a == Abs(X[1][1])
             c == Abs(X[2][1])
             p == IF c > a THEN c ELSE a
             x == IF c > a THEN a ELSE c
         IN  p = 0 \/ IsPow2(p \div Gcd(p, x))

\* The builds differ in how the inexact elimination of an exactly singular
\* matrix rounds: to a zero pivot (LinAlgError), or to a tiny non-zero pivot,
\* after which inv returns a finite matrix of rounding residue.
Builds == {"pivot_zero", "pivot_residue_a", "pivot_residue_b"}

\* what lsqr_solution then returns (dimensions agreeing); any finite vector
\* is possible, two stand for them
Residue(b) == IF b = "pivot_residue_a" THEN IntVec(<<1, 0>>) ELSE IntVec(<<-3, 1>>)

NoneInv == [kind |-> "none", num |-> <<>>, den |-> 0]

\* line 13: np.linalg.inv(A) under build b
inv(X, b) ==
    IF Det(X) # 0 THEN [kind |-> "exact", num |-> Adj(X), den |-> Det(X)]
    ELSE IF PivotExact(X) \/ b = "pivot_zero" THEN [kind |-> "LinAlgError", num |-> <<>>, den |-> 0]
    ELSE [kind |-> "residue", num |-> <<>>, den |-> 0]

NeedsBuild(X) == Det(X) = 0 /\ ~PivotExact(X)

\* line 14: np.dot(np.dot(A_inv, G.T), d); the shapes (M,N) and (K,) align iff K = N
dot_solution(Ai, G_, d_, b) ==
    IF Len(d_) # Len(G_) THEN [kind |-> "ValueError", val |-> NoneQ]
    ELSE IF Ai.kind = "residue" THEN [kind |-> "value", val |-> Residue(b)]
    ELSE [kind |-> "value",
          val |-> Reduce(MatVec(MatMul(Ai.num, Transpose(G_)), d_), Ai.den)]

\* lsqr_solution(G, d, epsilon) as a whole
lsqr_solution(G_, d_, eps, b) ==
    LET Ai == inv(NormalMatrix(G_, eps), b)
    IN  IF Ai.kind = "LinAlgError" THEN [kind |-> "LinAlgError", val |-> NoneQ]
        ELSE dot_solution(Ai, G_, d_, b)

----------------------------------------------------------------------------
(* residual, lines 17-22 *)

\* np.linalg.norm(d - d_est)**2 with the squares forgotten before summing
residual_sumfirst(d_, G_, mq) ==
    LET dest == MatVec(G_, mq.num)
        diff == [i \in 1..Len(d_) |-> mq.den * d_[i] - dest[i]]
        s == SumTo(diff, Len(diff))
    IN  Frac(s * s, mq.den * mq.den)

\* d_est = np.dot(G, m); np.linalg.norm(d - d_est)**2, for m = mq.num / mq.den
residual(d_, G_, mq) ==
    LET dest == MatVec(G_, mq.num)
        diff == [i \in 1..Len(d_) |-> mq.den * d_[i] - dest[i]]
    IN  Frac(Norm2(diff), mq.den * mq.den)

----------------------------------------------------------------------------
(* find_optimal_epsilon, lines 25-34 *)

\* line 32: np.abs(residual(d, G, m_est) - noise_norm**2)
score(r, noise) == [n |-> Abs(r.n - noise * noise * r.q), q |-> r.q]

\* an argmin that keeps the last of equal minima
RECURSIVE ArgminLastFrom(_, _, _)
ArgminLastFrom(s, i, best) ==
    IF i > Len(s) THEN best
    ELSE ArgminLastFrom(s, i + 1, IF Less(s[best], s[i]) THEN best ELSE i)

argmin_last(s) == ArgminLastFrom(s, 2, 1)

\* np.argmin over a non-empty list: the first index of the minimum (1-based)
RECURSIVE ArgminFrom(_, _, _)
ArgminFrom(s, i, best) ==
    IF i > Len(s) THEN best
    ELSE ArgminFrom(s, i + 1, IF Less(s[i], s[best]) THEN i ELSE best)

argmin(s) == ArgminFrom(s, 2, 1)

\* line 28 with the list kept from the previous call (a module-level list)
new_residuals_stale(old) == old

\* line 28: residuals = []
new_residuals(old) == <<>>

\* the loop swallowing a failed solve and going on to the next candidate
after_solve_failure_skip(isfind) == IF isfind THEN "find_for" ELSE "raised"

\* an exception of lsqr_solution is not caught at line 31: the call ends
after_solve_failure(isfind) == "raised"

\* line 34 on an empty list, with argmin answering index 0 instead of raising
find_return_lenient(rs, eps_values) ==
    IF rs = <<>> THEN [kind |-> "eps", num |-> <<0>>, den |-> 1, err |-> ""]
    ELSE IF argmin(rs) > Len(eps_values)
         THEN [kind |-> "none", num |-> <<>>, den |-> 0, err |-> "IndexError"]
    ELSE [kind |-> "eps", num |-> <<eps_values[argmin(rs)]>>, den |-> 1, err |-> ""]

\* line 34: epsilon_values[np.argmin(residuals)]
find_return(rs, eps_values) ==
    IF rs = <<>> THEN [kind |-> "none", num |-> <<>>, den |-> 0, err |-> "ValueError"]
    ELSE IF argmin(rs) > Len(eps_values)
         THEN [kind |-> "none", num |-> <<>>, den |-> 0, err |-> "IndexError"]
    ELSE [kind |-> "eps", num |-> <<eps_values[argmin(rs)]>>, den |-> 1, err |-> ""]

NoneRet == [kind |-> "none", num |-> <<>>, den |-> 0]

----------------------------------------------------------------------------
(* The caller: which problems and arguments it passes *)

G5 == << <<1, 0>>, <<0, 1>>, <<1, 1>>, <<2, 0>>, <<0, 2>> >>
I2 == << <<1, 0>>, <<0, 1>> >>
Ones2 == << <<1, 1>>, <<1, 1>> >>
Row725 == << <<7, 25>> >>
Col12 == << <<1>>, <<2>> >>

Pair(G_, d_) == [G |-> G_, d |-> d_]

\* (G, d) pairs: exact data, zero data, noisy data, rank-deficient G
\* (detected exactly / decided by rounding), a single column with data off
\* its range, and d of the wrong length
Problems ==
    { Pair(G5, MatVec(G5, <<3, 5>>)), Pair(G5, MatVec(G5, <<0, 0>>)),
      Pair(G5, <<3, 5, 8, 6, 11>>),
      Pair(I2, <<1, 2>>),
      Pair(Ones2, <<1, 2>>), Pair(Row725, <<1>>),
      Pair(Col12, <<1, 1>>),
      Pair(G5, <<3, 5, 8, 6>>), Pair(Ones2, <<1>>) }

\* the smaller domain of a caller that calls repeatedly
ProblemsRepeated == { Pair(I2, <<1, 2>>), Pair(Ones2, <<1, 2>>), Pair(Row725, <<1>>) }

ProblemsOf(dm) == IF dm = "single" THEN Problems ELSE ProblemsRepeated
EpsOf(dm) == IF dm = "single" THEN EpsGrid ELSE {0, 1}
NoiseOf(dm) == IF dm = "single" THEN NoiseGrid ELSE {0}

\* candidate lists: every list over the non-negative grid, and a few with a
\* negative candidate (the code squares it)
EpsLists(dm) ==
    IF dm = "single"
    THEN SeqsUpTo(0..EpsMax, MaxLen) \cup {<<-1>>, <<-1, 1>>, <<1, -1>>, <<0, -1>>}
    ELSE SeqsUpTo({0, 1}, MaxLen)

Matching(ps) == {p \in ps : Len(p.d) = Len(p.G)}

\* m vectors for a direct residual(d, G, m) call
MVals == {0, 1, 3, 5}
MVecs(dm, n) == IF dm = "single" THEN [1..n -> MVals] ELSE [1..n -> {0, 1}]

Init0 ==
    /\ pc = "idle" /\ op = "none"
    /\ G = <<>> /\ d = <<>> /\ epsilon = 0 /\ m = NoneQ
    /\ epsilon_values = <<>> /\ noise_norm = 0
    /\ A = <<>> /\ A_inv = NoneInv /\ m_est = NoneQ
    /\ residuals = <<>> /\ k = 0 /\ res = NoneR
    /\ ret = NoneRet /\ err = ""
    /\ build = "unobserved"
    /\ n_inv = 0 /\ n_res = 0 /\ m_log = <<>>
    /\ args0 = [G |-> <<>>, d |-> <<>>, epsilon_values |-> <<>>]

\* one call from the wide domain
Init == Init0 /\ dom = "single" /\ calls = 1

\* several calls in a row from the small domain
InitRepeated == Init0 /\ dom = "repeated" /\ calls = MaxCalls

\* what every call does on entry: a fresh frame, nothing returned yet
Enter(name, p, es) ==
    /\ calls' = calls - 1
    /\ op' = name
    /\ G' = p.G /\ d' = p.d
    /\ A' = <<>> /\ A_inv' = NoneInv /\ m_est' = NoneQ
    /\ res' = NoneR /\ ret' = NoneRet /\ err' = ""
    /\ n_inv' = 0 /\ n_res' = 0 /\ m_log' = <<>>
    /\ args0' = [G |-> p.G, d |-> p.d, epsilon_values |-> es]
    /\ UNCHANGED <<build, dom>>

\* the caller invokes lsqr_solution(G, d, epsilon)
CallLsqr ==
    /\ pc = "idle" /\ calls > 0
    /\ \E p \in ProblemsOf(dom), e \in EpsOf(dom) :
        /\ Enter("lsqr_solution", p, epsilon_values)
        /\ epsilon' = e
        /\ pc' = "lsqr_A"
        /\ UNCHANGED <<m, epsilon_values, noise_norm, residuals, k>>

\* the caller invokes residual(d, G, m), dimensions agreeing
CallResidual ==
    /\ pc = "idle" /\ calls > 0
    /\ \E p \in Matching(ProblemsOf(dom)) :
      \E mv \in MVecs(dom, Len(p.G[1])) :
        /\ Enter("residual", p, epsilon_values)
        /\ m' = IntVec(mv)
        /\ pc' = "residual_body"
        /\ UNCHANGED <<epsilon, epsilon_values, noise_norm, residuals, k>>

\* the caller invokes find_optimal_epsilon(G, d, epsilon_values, noise_norm);
\* line 28 runs
CallFind ==
    /\ pc = "idle" /\ calls > 0
    /\ \E p \in ProblemsOf(dom), es \in EpsLists(dom), nn \in NoiseOf(dom) :
        /\ Enter("find_optimal_epsilon", p, es)
        /\ epsilon_values' = es
        /\ noise_norm' = nn
        /\ residuals' = new_residuals(residuals)
        /\ k' = 0
        /\ pc' = "find_for"
        /\ UNCHANGED <<epsilon, m>>

\* line 30: the next candidate, and into lsqr_solution (line 31); or the loop ends
FindFor ==
    /\ pc = "find_for"
    /\ IF k < Len(epsilon_values)
       THEN /\ k' = k + 1
            /\ epsilon' = epsilon_values[k + 1]
            /\ pc' = "lsqr_A"
       ELSE /\ pc' = "find_return"
            /\ UNCHANGED <<k, epsilon>>
    /\ UNCHANGED <<op, G, d, m, epsilon_values, noise_norm, A, A_inv, m_est, residuals,
                   res, ret, err, build, calls, dom, n_inv, n_res, m_log, args0>>

\* lines 6-10
LsqrA ==
    /\ pc = "lsqr_A"
    /\ A' = NormalMatrix(G, epsilon)
    /\ pc' = "lsqr_inv"
    /\ UNCHANGED <<op, G, d, epsilon, m, epsilon_values, noise_norm, A_inv, m_est, residuals,
                   k, res, ret, err, build, calls, dom, n_inv, n_res, m_log, args0>>

\* line 13; the build's rounding is observed the first time it matters
LsqrInv ==
    /\ pc = "lsqr_inv"
    /\ n_inv' = n_inv + 1
    /\ \E b \in (IF build = "unobserved" /\ NeedsBuild(A) THEN Builds ELSE {build}) :
         /\ build' = b
         /\ A_inv' = inv(A, b)
         /\ IF inv(A, b).kind = "LinAlgError"
            THEN /\ err' = "LinAlgError"
                 /\ pc' = after_solve_failure(op = "find_optimal_epsilon")
            ELSE /\ pc' = "lsqr_dot"
                 /\ UNCHANGED err
    /\ UNCHANGED <<op, G, d, epsilon, m, epsilon_values, noise_norm, A, m_est, residuals,
                   k, res, ret, calls, dom, n_res, m_log, args0>>

\* line 14, and the return to the caller or to line 31
LsqrDot ==
    /\ pc = "lsqr_dot"
    /\ LET out == dot_solution(A_inv, G, d, build)
       IN  IF out.kind = "ValueError"
           THEN /\ err' = "ValueError"
                /\ pc' = after_solve_failure(op = "find_optimal_epsilon")
                /\ UNCHANGED <<m_est, ret, m_log>>
           ELSE IF op = "find_optimal_epsilon"
           THEN /\ m_est' = out.val
                /\ m_log' = Append(m_log, out.val)
                /\ pc' = "find_append"
                /\ UNCHANGED <<ret, err>>
           ELSE /\ ret' = [kind |-> "m_est", num |-> out.val.num, den |-> out.val.den]
                /\ pc' = "done"
                /\ UNCHANGED <<m_est, err, m_log>>
    /\ UNCHANGED <<op, G, d, epsilon, m, epsilon_values, noise_norm, A, A_inv, residuals,
                   k, res, build, calls, dom, n_inv, n_res, args0>>

\* line 32
FindAppend ==
    /\ pc = "find_append"
    /\ m' = m_est
    /\ res' = residual(d, G, m_est)
    /\ n_res' = n_res + 1
    /\ residuals' = Append(residuals, score(residual(d, G, m_est), noise_norm))
    /\ pc' = "find_for"
    /\ UNCHANGED <<op, G, d, epsilon, epsilon_values, noise_norm, A, A_inv, m_est,
                   k, ret, err, build, calls, dom, n_inv, m_log, args0>>

\* line 34
FindReturn ==
    /\ pc = "find_return"
    /\ LET r == find_return(residuals, epsilon_values)
       IN  IF r.err # ""
           THEN /\ err' = r.err
                /\ pc' = "raised"
                /\ UNCHANGED ret
           ELSE /\ ret' = [kind |-> r.kind, num |-> r.num, den |-> r.den]
                /\ pc' = "done"
                /\ UNCHANGED err
    /\ UNCHANGED <<op, G, d, epsilon, m, epsilon_values, noise_norm, A, A_inv, m_est,
                   residuals, k, res, build, calls, dom, n_inv, n_res, m_log, args0>>

\* lines 21-22 of a direct residual call
ResidualBody ==
    /\ pc = "residual_body"
    /\ res' = residual(d, G, m)
    /\ n_res' = n_res + 1
    /\ ret' = [kind |-> "residual", num |-> <<residual(d, G, m).n>>, den |-> residual(d, G, m).q]
    /\ pc' = "done"
    /\ UNCHANGED <<op, G, d, epsilon, m, epsilon_values, noise_norm, A, A_inv, m_est,
                   residuals, k, err, build, calls, dom, n_inv, m_log, args0>>

\* control is back with the caller; the dead frame is left as it is
Return ==
    /\ pc \in {"done", "raised"}
    /\ pc' = "idle"
    /\ UNCHANGED <<op, G, d, epsilon, m, epsilon_values, noise_norm, A, A_inv, m_est,
                   residuals, k, res, ret, err, build, calls, dom, n_inv, n_res, m_log, args0>>

Next ==
    \/ CallLsqr
    \/ CallResidual
    \/ CallFind
    \/ FindFor
    \/ LsqrA
    \/ LsqrInv
    \/ LsqrDot
    \/ FindAppend
    \/ FindReturn
    \/ ResidualBody
    \/ Return

Spec == Init /\ [][Next]_vars

SpecRepeated == InitRepeated /\ [][Next]_vars

----------------------------------------------------------------------------
(* What the claims speak of, computed from the arguments alone *)

IsFind == op = "find_optimal_epsilon"
IsLsqr == op = "lsqr_solution"
IsResidual == op = "residual"

Cands == 1..Len(epsilon_values)

\* solve(G, d, epsilon_values[j]) and the score of candidate j
SolveOf(j) == lsqr_solution(G, d, epsilon_values[j], build)
ScoreOf(j) == score(residual(d, G, SolveOf(j).val), noise_norm)

EpsRet(e) == [kind |-> "eps", num |-> <<e>>, den |-> 1]

GtGInvertible == Len(d) = Len(G) /\ Det(MatMul(Transpose(G), G)) # 0

\* squared norm of the first vector <= squared norm of the second
NormLeq(x, y) == ~FracLess(Norm2(y.num), y.den * y.den, Norm2(x.num), x.den * x.den)
NormLess(x, y) == FracLess(Norm2(x.num), x.den * x.den, Norm2(y.num), y.den * y.den)

----------------------------------------------------------------------------
(* C1: when find_optimal_epsilon returns, the list it built holds, in order, *)
(* the score |residual(d, G, solve(G, d, eps_j)) - noise_norm^2| of every    *)
(* candidate, and it returns epsilon_values[i] for the smallest index i      *)
(* whose score is the minimum: no candidate scores less, every earlier       *)
(* candidate scores strictly more, and the value is an element of            *)
(* epsilon_values.                                                           *)
C1_FirstArgmin ==
    (IsFind /\ pc = "done") =>
        /\ Len(residuals) = Len(epsilon_values)
        /\ \A j \in Cands : SolveOf(j).kind = "value" /\ residuals[j] = ScoreOf(j)
        /\ \E i \in Cands :
             /\ ret = EpsRet(epsilon_values[i])
             /\ \A j \in Cands : ~Less(residuals[j], residuals[i])
             /\ \A j \in 1..(i - 1) : Less(residuals[i], residuals[j])

\* a later candidate of a different value ties with the returned first one
C1_Witness ==
    /\ IsFind /\ pc = "done"
    /\ \E i \in Cands, j \in Cands :
         /\ i < j
         /\ ret = EpsRet(epsilon_values[i])
         /\ epsilon_values[j] # epsilon_values[i]
         /\ residuals[j] = residuals[i]
         /\ residuals[j] = ScoreOf(j)
         /\ \A l \in Cands : ~Less(residuals[l], residuals[i])
         /\ \A l \in 1..(i - 1) : Less(residuals[i], residuals[l])

(* C2: if the solve of a candidate fails with a singular matrix,             *)
(* find_optimal_epsilon ends with that LinAlgError and returns nothing; the  *)
(* failing candidate is the one the loop stood at, the candidates before it  *)
(* were all solved, and nothing after it is scored or selected.              *)
C2_SolveFailurePropagates ==
    (IsFind /\ pc \in {"done", "raised", "find_return"}
            /\ \E j \in 1..k : SolveOf(j).kind = "LinAlgError") =>
        /\ pc = "raised"
        /\ err = "LinAlgError"
        /\ ret = NoneRet
        /\ SolveOf(k).kind = "LinAlgError"
        /\ \A j \in 1..(k - 1) : SolveOf(j).kind = "value"
        /\ Len(residuals) = k - 1

\* the failure comes after a solved candidate and before an untried one
C2_Witness ==
    /\ IsFind /\ pc = "raised" /\ err = "LinAlgError"
    /\ k >= 2 /\ k < Len(epsilon_values)
    /\ Len(residuals) = k - 1

(* C3: a call of lsqr_solution with a d whose length is not the number of    *)
(* rows of G is rejected before any matrix inversion is attempted.           *)
C3_MismatchRejectedBeforeInversion ==
    (IsLsqr /\ Len(d) # Len(G)) => (n_inv = 0 /\ pc # "done")

(* C4: find_optimal_epsilon called with an empty epsilon_values never        *)
(* returns a value; it performs no inversion and no residual evaluation,     *)
(* and it ends with an error.                                                *)
C4_EmptyCandidatesFail ==
    (IsFind /\ epsilon_values = <<>>) =>
        /\ pc \in {"find_for", "find_return", "raised", "idle"}
        /\ n_inv = 0 /\ n_res = 0 /\ residuals = <<>>
        /\ ret = NoneRet
        /\ (pc \in {"raised", "idle"} => err = "ValueError")

C4_Witness ==
    IsFind /\ epsilon_values = <<>> /\ pc = "raised" /\ err = "ValueError"

(* C5: a negative damping coefficient passed to lsqr_solution, or a negative *)
(* candidate or a negative noise_norm passed to find_optimal_epsilon, is     *)
(* rejected before any numeric work: nothing is inverted, no residual is     *)
(* evaluated and no value is returned.                                       *)
C5_NegativeArgumentsRejected ==
    (\/ IsLsqr /\ epsilon < 0
     \/ IsFind /\ (noise_norm < 0 \/ \E j \in Cands : epsilon_values[j] < 0)) =>
        (n_inv = 0 /\ n_res = 0 /\ pc # "done")

(* C6: lsqr_solution(G, d, 0) with a rank-deficient G (G^T G singular)       *)
(* never returns an m_est: it ends with the singular-matrix error.           *)
C6_RankDeficientFails ==
    (IsLsqr /\ epsilon = 0 /\ Len(d) = Len(G)
            /\ Det(MatMul(Transpose(G), G)) = 0) =>
        /\ pc # "done"
        /\ (pc = "raised" => err = "LinAlgError")

----------------------------------------------------------------------------
(* C8: noise-free data, full column rank, noise_norm = 0, 0 a candidate *)

d35 == MatVec(G5, <<3, 5>>)

\* d = G*m for some m: with G of full column rank, exactly when the
\* least-squares solution reproduces d
ExactData == residual(d, G, lsqr_solution(G, d, 0, build).val).n = 0

NoiseFree ==
    /\ IsFind /\ pc = "done"
    /\ GtGInvertible /\ ExactData
    /\ noise_norm = 0
    /\ \E j \in Cands : epsilon_values[j] = 0

----------------------------------------------------------------------------
(* C9: what each call must come to, from the arguments as passed *)

RECURSIVE RefScores(_, _, _, _, _, _, _)
RefScores(G_, d_, es, nn, b, j, acc) ==
    IF j > Len(es) THEN [kind |-> "value", scores |-> acc]
    ELSE LET s == lsqr_solution(G_, d_, es[j], b)
         IN  IF s.kind # "value" THEN [kind |-> s.kind, scores |-> acc]
             ELSE RefScores(G_, d_, es, nn, b, j + 1,
                            Append(acc, score(residual(d_, G_, s.val), nn)))

Outcome(p, e, r) == [pc |-> p, err |-> e, ret |-> r]

RefOutcome ==
    IF IsLsqr THEN
        LET s == lsqr_solution(args0.G, args0.d, epsilon, build)
        IN  IF s.kind = "value"
            THEN Outcome("done", "", [kind |-> "m_est", num |-> s.val.num, den |-> s.val.den])
            ELSE Outcome("raised", s.kind, NoneRet)
    ELSE IF IsResidual THEN
        LET r == residual(args0.d, args0.G, m)
        IN  Outcome("done", "", [kind |-> "residual", num |-> <<r.n>>, den |-> r.q])
    ELSE
        LET sc == RefScores(args0.G, args0.d, args0.epsilon_values, noise_norm, build, 1, <<>>)
            r == find_return(sc.scores, args0.epsilon_values)
        IN  IF sc.kind # "value" THEN Outcome("raised", sc.kind, NoneRet)
            ELSE IF r.err # "" THEN Outcome("raised", r.err, NoneRet)
            ELSE Outcome("done", "", [kind |-> r.kind, num |-> r.num, den |-> r.den])

(* C9: throughout every call, whatever calls preceded it, G, d and           *)
(* epsilon_values are as the caller passed them, and when the call ends its  *)
(* result (value or error) is the one its own arguments determine.           *)
C9_CallsIndependent ==
    /\ G = args0.G /\ d = args0.d
    /\ IsFind => epsilon_values = args0.epsilon_values
    /\ pc \in {"done", "raised"} => Outcome(pc, err, ret) = RefOutcome

\* a later call of find_optimal_epsilon, after an earlier one left its list
C9_Witness ==
    /\ dom = "repeated" /\ calls <= MaxCalls - 2
    /\ IsFind /\ pc = "done"
    /\ Len(epsilon_values) >= 2

----------------------------------------------------------------------------
(* C10: for G^T G invertible and candidates 0 <= eps1 < eps2 solved in one   *)
(* search, the norm of solve(G, d, eps2) is at most that of                  *)
(* solve(G, d, eps1).                                                        *)
C10_MonotonicShrinkage ==
    (IsFind /\ Len(m_log) >= 2 /\ GtGInvertible) =>
        \A i \in 1..Len(m_log), j \in 1..Len(m_log) :
            (0 <= epsilon_values[i] /\ epsilon_values[i] < epsilon_values[j]) =>
                NormLeq(m_log[j], m_log[i])

\* three increasing candidates from 0 with strictly shrinking solutions
C10_Witness ==
    /\ IsFind /\ pc = "done" /\ GtGInvertible
    /\ epsilon_values = <<0, 1, 2>>
    /\ NormLess(m_log[2], m_log[1])
    /\ NormLess(m_log[3], m_log[2])

====
